---- MODULE Spec2Model ----
(***************************************************************************)
(* Model of storage/src/ledger.rs: the Ledger (height counter, commitment  *)
(* Merkle tree behind an atomically swappable pointer, storage handle),    *)
(* its constructors (new_empty, open_at_path, open_secondary_at_path,      *)
(* load_ledger_state), its metadata accessors and catch_up_secondary.      *)
(***************************************************************************)
EXTENDS Integers, Sequences, FiniteSets, TLC

(***************************************************************************)
(* Bounds of the model.                                                    *)
(***************************************************************************)
\* Largest best block number the primary writer reaches.
MaxHeight == 2
\* Largest primary_height a caller passes to catch_up_secondary.
MaxPrimaryHeight == 2

(***************************************************************************)
(* Values.                                                                 *)
(***************************************************************************)
\* Option<T>: None is the empty sequence, Some(v) the one-element sequence.
None == << >>
Some(v) == << v >>
IsSome(o) == o # None
Unwrap(o) == o[1]

COL_META == "COL_META"
COL_COMMITMENT == "COL_COMMITMENT"
KEY_BEST_BLOCK_NUMBER == "BEST_BLOCK_NUMBER"
KEY_PEER_BOOK == "PEER_BOOK"

Byte == 0 .. 255

\* u32 -> 4 little-endian bytes, as the writer stores heights and indices.
u32_to_bytes(n) ==
    << n % 256, (n \div 256) % 256, (n \div 65536) % 256, (n \div 16777216) % 256 >>

\* 4 little-endian bytes -> u32.
bytes_to_u32(b) == b[1] + 256 * b[2] + 65536 * b[3] + 16777216 * b[4]

\* The commitments of the transactions of the embedded genesis block, in
\* the order the block lists them (each one byte wide here).
GenesisCommitments == << 3, 1 >>

\* The commitment a later block may carry.
BlockCommitments == { 2 * k : k \in 0 .. MaxHeight - 1 }

\* A commitment's storage key: its bytes.
CommitmentKey(cm) == << cm >>

\* FromBytes::read_le on a commitment key: None when the key is too short
\* (the bytes may also fail to be a commitment: the fault "read_le").
ReadCommitment(key) == IF Len(key) < 1 THEN None ELSE Some(key[1])

\* The key a corrupted (truncated) commitment entry is left with.
TruncatedKey == << >>

(***************************************************************************)
(* The storage facade: a column-partitioned key-value store.  A store is a *)
(* function from columns to maps (key -> value).                           *)
(***************************************************************************)
Cols == { COL_META, COL_COMMITMENT }
EmptyMap == [ k \in {} |-> << >> ]
EmptyStore == [ col \in Cols |-> EmptyMap ]

\* Storage::get(col, key) -> Option<bytes>
get(store, col, key) ==
    IF key \in DOMAIN store[col] THEN Some(store[col][key]) ELSE None

\* The store after Op::Insert { col, key, value }.
Insert(store, col, key, value) ==
    [ store EXCEPT ![col] = (key :> value) @@ store[col] ]

\* Storage::get_col(col): every (key, value) of the column.  The engine
\* fixes the order; rank (a sequence listing every key once) stands for it.
get_col(store, col, rank) ==
    LET keys == SelectSeq(rank, LAMBDA k : k \in DOMAIN store[col])
    IN  [ i \in 1 .. Len(keys) |-> << keys[i], store[col][keys[i]] >> ]

\* Every key a commitment column may hold.
KeyUniverse ==
    { CommitmentKey(cm) :
        cm \in { GenesisCommitments[i] : i \in DOMAIN GenesisCommitments } \cup BlockCommitments }
    \cup { TruncatedKey }

\* Every order over a finite set of keys, as sequences.
RECURSIVE Orderings(_)
Orderings(S) ==
    IF S = {} THEN { << >> }
    ELSE UNION { { << k >> \o o : o \in Orderings(S \ { k }) } : k \in S }

\* The key with the smallest bytes (shorter first, then by first byte).
KeyLess(a, b) ==
    \/ Len(a) < Len(b)
    \/ Len(a) = Len(b) /\ Len(a) > 0 /\ a[1] < b[1]

RECURSIVE AscendingKeys(_)
AscendingKeys(S) ==
    IF S = {} THEN << >>
    ELSE LET m == CHOOSE k \in S : \A o \in S \ { k } : KeyLess(k, o)
         IN  << m >> \o AscendingKeys(S \ { m })

Reverse(s) == [ i \in 1 .. Len(s) |-> s[Len(s) + 1 - i] ]

\* The iteration orders of the engines the ledger runs on: byte order of
\* the keys, forward or backward.
EngineRanks == { AscendingKeys(KeyUniverse), Reverse(AscendingKeys(KeyUniverse)) }

\* The storage on disk at the ledger's path: whether the directory exists,
\* and the database's contents.
NoDisk == [ dir |-> FALSE, db |-> EmptyStore ]

\* The path the ledger's storage lives at.
LedgerPath == "ledger"

\* Storage::open(path, secondary_path): without a secondary marker path the
\* handle is a primary one, which reads and writes the database; with one
\* it is a secondary handle, which reads the database as it was when the
\* handle last caught up (at open, or at try_catch_up_with_primary).  The
\* handle keeps the marker path it was opened with.
Open(d, path, secondary) ==
    [ mode |-> IF secondary = None THEN "primary" ELSE "secondary",
      view |-> IF secondary = None THEN EmptyStore ELSE d.db,
      marker |-> secondary ]

\* What a handle reads.
Contents(storage, d) == IF storage.mode = "primary" THEN d.db ELSE storage.view

\* Storage::try_catch_up_with_primary succeeded: the handle sees the disk.
CaughtUp(storage, d) ==
    IF storage.mode = "secondary" THEN [ storage EXCEPT !.view = d.db ] ELSE storage

(***************************************************************************)
(* The commitment index scanner of load_ledger_state.                      *)
(***************************************************************************)
\* The position at which sort_by inserts pair p into the sorted sequence s:
\* after every pair whose index is not greater (the sort is stable).
RECURSIVE InsertByIndex(_, _)
InsertByIndex(s, p) ==
    IF s = << >> THEN << p >>
    ELSE IF s[Len(s)][2] <= p[2] THEN Append(s, p)
    ELSE Append(InsertByIndex(SubSeq(s, 1, Len(s) - 1), p), s[Len(s)])

\* A scan that keeps the pairs in the order get_col returned them.
UnsortedPairs(s) == s

\* cm_and_indices.sort_by(|&(_, i), &(_, j)| i.cmp(&j))
RECURSIVE sort_by_index(_)
sort_by_index(s) ==
    IF s = << >> THEN << >>
    ELSE InsertByIndex(sort_by_index(SubSeq(s, 1, Len(s) - 1)), s[Len(s)])

\* The loop over get_col(COL_COMMITMENT): each entry decoded to
\* (Option<commitment>, index).
cm_and_indices(cms) ==
    [ i \in 1 .. Len(cms) |-> << ReadCommitment(cms[i][1]), bytes_to_u32(cms[i][2]) >> ]

\* The sorted commitments of a scan: None when a key fails to decode.
ScanCommitments(cms) ==
    LET pairs == cm_and_indices(cms)
    IN  IF \E i \in DOMAIN pairs : pairs[i][1] = None THEN None
        ELSE LET sorted == sort_by_index([ i \in DOMAIN pairs |-> << Unwrap(pairs[i][1]), pairs[i][2] >> ])
             IN  Some([ i \in DOMAIN sorted |-> sorted[i][1] ])

\* MerkleTree::new(parameters, leaves): the tree over the leaf sequence
\* (the hashing is the tree library's; a tree is known by its leaves).
MerkleTree_new(leaves) == [ leaves |-> leaves ]

(***************************************************************************)
(* Ledger construction.  A constructor's outcome is                        *)
(*   res      "Ok" | "Err" (a StorageError) | "Panic" | "Overflow"         *)
(*   height, tree, storage   the fields of the Ledger returned on Ok       *)
(*   disk     the disk the call leaves behind                              *)
(*   calls    how many times load_ledger_state was entered                 *)
(*   installs how many times the genesis block was installed               *)
(*   fault    the step that failed, NoFault when none did.                 *)
(* env.fault names the one fallible step that fails, by its site and the   *)
(* load_ledger_state invocation it belongs to; env.rank is get_col's order.*)
(***************************************************************************)
\* Deepest nesting of load_ledger_state the stack holds.
MaxCalls == 3

NoFault == [ site |-> "none", call |-> 0 ]
LoadSites ==
    { "open", "get_meta", "reopen", "get_col", "read_le", "tree_new", "genesis_decode", "new" }
Faults ==
    { NoFault }
    \cup { [ site |-> "create_dir", call |-> 0 ] }
    \cup { [ site |-> s, call |-> c ] : s \in LoadSites, c \in 1 .. 2 }

\* What a constructor's run depends on besides its arguments and the disk.
Envs == [ fault : Faults, rank : EngineRanks ]

ClosedStorage == [ mode |-> "closed", view |-> EmptyStore, marker |-> None ]
EmptyTree == MerkleTree_new(<< >>)

\* A failure papered over with a default, empty ledger.
DefaultLedgerOnFailure(kind, d, calls, installs, fault) ==
    [ res |-> "Ok", height |-> 0, tree |-> EmptyTree, storage |-> Open(d, LedgerPath, None),
      probe |-> None, disk |-> d, calls |-> calls, installs |-> installs, fault |-> fault ]

\* The outcome of a constructor that failed: an error (or a panic), and no
\* ledger.
Failed(kind, d, calls, installs, fault) ==
    [ res |-> kind, height |-> 0, tree |-> EmptyTree, storage |-> ClosedStorage,
      probe |-> None, disk |-> d, calls |-> calls, installs |-> installs, fault |-> fault ]

\* What the genesis install writes: best block number 0 and the genesis
\* commitments under the indices 0, 1, ... in block order.
RECURSIVE InsertCommitments(_, _, _)
InsertCommitments(store, cms, first) ==
    IF cms = << >> THEN store
    ELSE InsertCommitments(
             Insert(store, COL_COMMITMENT, CommitmentKey(Head(cms)), u32_to_bytes(first)),
             Tail(cms), first + 1)

GenesisStore(store) ==
    InsertCommitments(
        Insert(store, COL_META, KEY_BEST_BLOCK_NUMBER, u32_to_bytes(0)),
        GenesisCommitments, 0)

\* Ledger::new(path, genesis_block): a primary ledger over fresh storage
\* with the genesis block inserted.  path is TRUE for Some(path), FALSE for
\* None (storage in memory).
Ledger_new(path, d, fails) ==
    IF fails THEN Failed("Err", d, 0, 0, [ site |-> "new", call |-> 0 ])
    ELSE IF path
    THEN [ res |-> "Ok", height |-> 0, tree |-> MerkleTree_new(GenesisCommitments),
           storage |-> Open(d, LedgerPath, None), probe |-> None,
           disk |-> [ dir |-> TRUE, db |-> GenesisStore(d.db) ], calls |-> 0, installs |-> 1, fault |-> NoFault ]
    ELSE [ res |-> "Ok", height |-> 0, tree |-> MerkleTree_new(GenesisCommitments),
           storage |-> [ mode |-> "memory", view |-> GenesisStore(EmptyStore), marker |-> None ],
           probe |-> None, disk |-> d, calls |-> 0, installs |-> 1, fault |-> NoFault ]

\* A marker path that is the ledger's path itself.
secondary_path_without_suffix(path) == path

\* "secondary_path_os_string.push("_secondary")": the secondary marker path
\* of a ledger path.
secondary_path(path) == path \o "_secondary"

\* "match primary { true => S::open(Some(path), None), false =>
\* S::open(Some(path), Some(&secondary_path)) }": the marker path argument
\* load_ledger_state opens the storage with.
SecondaryArg(path, primary) == IF primary THEN None ELSE Some(secondary_path(path))

\* A genesis branch that returns the primary ledger it made to every caller.
NeverReloads(primary) == FALSE

\* "if !primary { return Self::load_ledger_state(path, primary); }": whether
\* the genesis branch loads again instead of returning the ledger it made.
ReloadsAfterInstall(primary) == ~primary

RECURSIVE load_ledger_state(_, _, _, _, _)
load_ledger_state(d, primary, env, call, installs) ==
    LET At(site) == [ site |-> site, call |-> call ]
        Fails(site) == env.fault = At(site)
        Error(site) == Failed("Err", d, call, installs, At(site))
    IN
    IF call > MaxCalls THEN Failed("Overflow", d, call - 1, installs, NoFault)
    ELSE IF Fails("open") THEN Error("open")
    ELSE IF Fails("get_meta") THEN Error("get_meta")
    ELSE
    LET probing == Open(d, LedgerPath, SecondaryArg(LedgerPath, primary))
        latest_block_number ==
            get(Contents(probing, d), COL_META, KEY_BEST_BLOCK_NUMBER)
    IN
    IF IsSome(latest_block_number)
    THEN
        IF Fails("reopen") THEN Error("reopen")
        ELSE IF Fails("get_col") THEN Error("get_col")
        ELSE
        LET storage == Open(d, LedgerPath, SecondaryArg(LedgerPath, primary))
            commitments == ScanCommitments(get_col(Contents(storage, d), COL_COMMITMENT, env.rank))
        IN
        IF commitments = None \/ Fails("read_le") THEN Error("read_le")
        ELSE IF Fails("tree_new") THEN Error("tree_new")
        ELSE [ res |-> "Ok",
               height |-> bytes_to_u32(Unwrap(latest_block_number)),
               tree |-> MerkleTree_new(Unwrap(commitments)),
               storage |-> storage, probe |-> probing.marker,
               disk |-> d, calls |-> call, installs |-> installs, fault |-> NoFault ]
    ELSE
        IF Fails("genesis_decode") THEN Error("genesis_decode")
        ELSE
        LET ledger_storage == Ledger_new(TRUE, d, Fails("new"))
            created == [ ledger_storage EXCEPT !.calls = call, !.installs = installs + 1,
                                               !.probe = probing.marker ]
        IN
        IF ledger_storage.res # "Ok" THEN Failed("Panic", d, call, installs, At("new"))
        ELSE IF ReloadsAfterInstall(primary)
        THEN load_ledger_state(created.disk, primary, env, call + 1, installs + 1)
        ELSE created

\* fs::create_dir_all(path)
create_dir_all(d) == [ d EXCEPT !.dir = TRUE ]

\* An open_at_path that loads the ledger as a secondary.
open_at_path_as_secondary(d, env) ==
    IF env.fault.site = "create_dir" THEN Failed("Err", d, 0, 0, env.fault)
    ELSE load_ledger_state(create_dir_all(d), FALSE, env, 1, 0)

\* Ledger::open_at_path(path)
open_at_path(d, env) ==
    IF env.fault.site = "create_dir" THEN Failed("Err", d, 0, 0, env.fault)
    ELSE load_ledger_state(create_dir_all(d), TRUE, env, 1, 0)

\* Ledger::open_secondary_at_path(path)
open_secondary_at_path(d, env) ==
    IF env.fault.site = "create_dir" THEN Failed("Err", d, 0, 0, env.fault)
    ELSE load_ledger_state(create_dir_all(d), FALSE, env, 1, 0)

\* fs::remove_dir_all(path): the directory and the database are gone, or
\* the removal failed and nothing was removed.
remove_dir_all(d, removed) == IF removed THEN NoDisk ELSE d

\* Ledger::new_empty(path); path is TRUE for Some(path), FALSE for None.
new_empty(path, d, removed, env) ==
    IF path THEN open_at_path(remove_dir_all(d, removed), env)
    ELSE IF env.fault.site = "genesis_decode" THEN Failed("Err", d, 0, 0, env.fault)
    ELSE LET made == Ledger_new(FALSE, d, env.fault.site = "new")
         IN  IF made.res # "Ok" THEN Failed("Panic", d, 0, 0, env.fault) ELSE made

(***************************************************************************)
(* Operations on an open ledger.                                           *)
(***************************************************************************)
\* Ledger::block_height(): the in-memory height counter.
block_height(l) == l.current_block_height

\* The steps of rebuild_merkle_tree that can fail.
RebuildSites == { "get_col", "read_le", "tree_rebuild" }

\* rebuild_merkle_tree(additional_cms): the tree over the commitments of
\* the whole commitment column, sorted by index, followed by the
\* additional ones; None when the scan, a decode or the build fails.
rebuild_merkle_tree(l, d, additional_cms, env) ==
    IF env.fault.site = "get_col" THEN None
    ELSE LET old == ScanCommitments(get_col(Contents(l.storage, d), COL_COMMITMENT, env.rank))
         IN  IF old = None \/ env.fault.site \in { "read_le", "tree_rebuild" } THEN None
             ELSE Some(MerkleTree_new(Unwrap(old) \o additional_cms))

\* A catch-up that syncs and stores whatever the two heights are.
NeedsCatchUpAlways(primary_height, secondary_height) == TRUE

\* A comparison that also catches up at equal heights.
NeedsCatchUpAtEqual(primary_height, secondary_height) == primary_height >= secondary_height

\* "if primary_height > secondary_height"
NeedsCatchUp(primary_height, secondary_height) == primary_height > secondary_height

\* A store that is off by one.
StoredHeightOffByOne(primary_height) == primary_height - 1

\* The height catch_up_secondary stores after a successful sync.
StoredHeight(primary_height) == primary_height

\* A catch-up that rebuilds the tree whatever the flag.
RebuildsTreeAlways(update_merkle_tree) == TRUE

\* "if update_merkle_tree": whether the tree is rebuilt after the sync.
RebuildsTree(update_merkle_tree) == update_merkle_tree

\* A catch-up that propagates the sync's error with "?".
SyncErrorPropagated == TRUE

\* "if self.storage.try_catch_up_with_primary().is_ok()": whether a failed
\* storage sync is returned as an error.
SyncErrorIsFatal == FALSE

\* A rebuild that is handed a commitment besides the rescanned ones.
RebuildWithExtraCommitment == << 0 >>

\* "self.rebuild_merkle_tree(vec![])": the additional commitments the
\* catch-up hands to the rebuild.
RebuildDelta == << >>

\* Ledger::catch_up_secondary(update_merkle_tree, primary_height) run alone
\* from start to end.  The outcome: res, the ledger's fields after the call,
\* publish (Some(tree) when a new tree was stored into cm_merkle_tree),
\* synced (try_catch_up_with_primary was called) and sync_ok (it succeeded),
\* rebuild (the rebuild was called), additional_cms (Some of what it was
\* handed) and fault (the step of it that failed).
catch_up_secondary(l, d, update_merkle_tree, primary_height, sync_ok, env) ==
    LET secondary_height == block_height(l)
        Same(res, synced) ==
            [ res |-> res, ledger |-> l, publish |-> None, synced |-> synced,
              sync_ok |-> FALSE, rebuild |-> FALSE, additional_cms |-> None, fault |-> NoFault ]
    IN
    IF ~NeedsCatchUp(primary_height, secondary_height) THEN Same("Ok", FALSE)
    ELSE IF ~sync_ok THEN Same(IF SyncErrorIsFatal THEN "Err" ELSE "Ok", TRUE)
    ELSE
    LET synced == [ l EXCEPT !.storage = CaughtUp(l.storage, d),
                             !.current_block_height = StoredHeight(primary_height) ]
    IN
    IF ~RebuildsTree(update_merkle_tree)
    THEN [ res |-> "Ok", ledger |-> synced, publish |-> None, synced |-> TRUE,
           sync_ok |-> TRUE, rebuild |-> FALSE, additional_cms |-> None, fault |-> NoFault ]
    ELSE LET tree == rebuild_merkle_tree(synced, d, RebuildDelta, env)
         IN  [ res |-> IF tree = None THEN "Err" ELSE "Ok",
               ledger |-> synced, publish |-> tree, synced |-> TRUE,
               sync_ok |-> TRUE, rebuild |-> TRUE, additional_cms |-> Some(RebuildDelta),
               fault |-> IF tree = None THEN env.fault ELSE NoFault ]

\* The peer books a caller saves.
PeerBooks == { << >>, << 7 >> }

\* The store after the operations of a transaction, applied in order.
RECURSIVE ApplyOps(_, _)
ApplyOps(store, ops) ==
    IF ops = << >> THEN store
    ELSE ApplyOps(Insert(store, Head(ops).col, Head(ops).key, Head(ops).value), Tail(ops))

\* Storage::batch(DatabaseTransaction(ops)): the store after the whole
\* transaction, or None when the batch fails and nothing is written (a
\* secondary handle is read-only).
batch(storage, d, transaction, fails) ==
    IF fails \/ storage.mode = "secondary" THEN None
    ELSE Some(ApplyOps(Contents(storage, d), transaction))

\* A lookup that takes an empty value for a missing one.
get_peer_book_unless_empty(l, d, fails) ==
    IF fails THEN [ res |-> "Err", value |-> None ]
    ELSE LET found == get(Contents(l.storage, d), COL_META, KEY_PEER_BOOK)
         IN  [ res |-> "Ok", value |-> IF found = Some(<< >>) THEN None ELSE found ]

\* Ledger::get_peer_book(): Ok(the stored bytes, if any), or the error of
\* the storage's get (fails).
get_peer_book(l, d, fails) ==
    IF fails THEN [ res |-> "Err", value |-> None ]
    ELSE [ res |-> "Ok", value |-> get(Contents(l.storage, d), COL_META, KEY_PEER_BOOK) ]

\* A transaction that files the peer book under the best block number's key.
save_peer_book_under_best_block_number(peers_serialized) ==
    << [ col |-> COL_META, key |-> KEY_BEST_BLOCK_NUMBER, value |-> peers_serialized ] >>

\* "DatabaseTransaction(vec![op])" of save_peer_book_to_storage: one insert
\* of the bytes under the peer book's key.
save_peer_book_transaction(peers_serialized) ==
    << [ col |-> COL_META, key |-> KEY_PEER_BOOK, value |-> peers_serialized ] >>

\* A lookup that answers with the in-memory height counter.
get_best_block_number_from_counter(l, d, fails) ==
    IF fails THEN [ res |-> "Err", value |-> None ]
    ELSE [ res |-> "Ok", value |-> Some(l.current_block_height) ]

\* Ledger::get_best_block_number(): the stored best block number decoded,
\* an error when the key is absent or the storage's get fails.
get_best_block_number(l, d, fails) ==
    IF fails THEN [ res |-> "Err", value |-> None ]
    ELSE LET best_block_number_bytes == get(Contents(l.storage, d), COL_META, KEY_BEST_BLOCK_NUMBER)
         IN  IF best_block_number_bytes = None THEN [ res |-> "Err", value |-> None ]
             ELSE [ res |-> "Ok", value |-> Some(bytes_to_u32(Unwrap(best_block_number_bytes))) ]

\* Ledger::latest_block(): the block at the best block number; an error
\* when the storage holds no block or the lookup fails.
latest_block(l, d, fails) ==
    IF fails \/ get(Contents(l.storage, d), COL_META, KEY_BEST_BLOCK_NUMBER) = None
    THEN [ res |-> "Err", value |-> None ]
    ELSE [ res |-> "Ok",
           value |-> get(Contents(l.storage, d), COL_META, KEY_BEST_BLOCK_NUMBER) ]

\* An emptiness test with the sense of the lookup inverted.
is_empty_when_found(l, d, fails) == latest_block(l, d, fails).res = "Ok"

\* Ledger::is_empty(): "self.latest_block().is_err()"
is_empty(l, d, fails) == latest_block(l, d, fails).res = "Err"

(***************************************************************************)
(* The state.                                                              *)
(*   disk    the storage at the ledger's path                              *)
(*   ledger  the Ledger the process holds (storage.mode "closed": none);   *)
(*           cm_merkle_tree is the ArcSwap's pointer, an address of arcs   *)
(*   arcs    the heap of Arc<MerkleTree>: address -> tree, for every tree  *)
(*           some pointer still refers to                                  *)
(*   last    the last call made: its arguments, its outcome and the state  *)
(*           it started from                                               *)
(*   thr     the threads running catch_up_secondary step by step           *)
(*   rdr     a thread reading the tree                                     *)
(***************************************************************************)
VARIABLES disk, ledger, arcs, last, thr, rdr

vars == << disk, ledger, arcs, last, thr, rdr >>

NoLedger ==
    [ current_block_height |-> 0, cm_merkle_tree |-> 0, storage |-> ClosedStorage ]

IsOpen(l) == l.storage.mode # "closed"

\* The tree the ledger's pointer refers to.
TreeOf(l, heap) == IF l.cm_merkle_tree \in DOMAIN heap THEN heap[l.cm_merkle_tree] ELSE EmptyTree

NoArcs == [ p \in {} |-> EmptyTree ]

\* Arc::new: the address of a new allocation.
FreshArc(heap) == CHOOSE p \in 1 .. Cardinality(DOMAIN heap) + 1 : p \notin DOMAIN heap

Writers == { 1, 2 }

\* Every address some pointer refers to: the ledger's, the one of a tree a
\* thread is building, the reader's.
Referenced(l, threads, reader) ==
    ({ l.cm_merkle_tree, reader.snapshot } \cup { threads[w].new_tree : w \in Writers }) \ { 0 }

\* A swap that frees the replaced tree although a reader still holds it.
DropHeldSnapshots(heap, l, threads, reader) ==
    [ p \in DOMAIN heap \cap Referenced(l, threads, [ reader EXCEPT !.snapshot = 0 ]) |-> heap[p] ]

\* The heap once every Arc no pointer refers to any more is dropped.
DropUnreferenced(heap, l, threads, reader) ==
    [ p \in DOMAIN heap \cap Referenced(l, threads, reader) |-> heap[p] ]
\* A thread in catch_up_secondary: where it is (pc), its arguments, the
\* leaves of the tree it is rebuilding and the address it builds the tree
\* at.  (secondary_height is read once, in the step that loads it.)
IdleThread ==
    [ pc |-> "idle", update_merkle_tree |-> FALSE, primary_height |-> 0,
      leaves |-> << >>, new_tree |-> 0 ]

\* The reader: the snapshot it holds (0: none) and the tree it found behind
\* it when it loaded it.
IdleReader == [ snapshot |-> 0, seen |-> EmptyTree ]

NoCall ==
    [ op |-> "none", path |-> FALSE, update_merkle_tree |-> FALSE, primary_height |-> 0,
      fault |-> NoFault, removed |-> FALSE, sync_ok |-> FALSE, value |-> None, ops |-> 0,
      res |-> "none", calls |-> 0, installs |-> 0, synced |-> FALSE, rebuild |-> FALSE,
      published |-> FALSE, probe |-> None, additional_cms |-> None,
      pre_ledger |-> NoLedger, pre_disk |-> NoDisk, pre_tree |-> EmptyTree ]

\* The record of a call that starts in the current state.
Call(op) ==
    [ NoCall EXCEPT !.op = op, !.pre_ledger = ledger, !.pre_disk = disk,
                    !.pre_tree = TreeOf(ledger, arcs) ]

Init ==
    /\ disk = NoDisk
    /\ ledger = NoLedger
    /\ arcs = NoArcs
    /\ last = NoCall
    /\ thr = [ w \in Writers |-> IdleThread ]
    /\ rdr = IdleReader

\* A constructor returned: the process holds the ledger on Ok, nothing
\* otherwise; the disk is as the call left it.
Constructed(out, call) ==
    /\ disk' = out.disk
    /\ IF out.res = "Ok"
       THEN /\ ledger' = [ current_block_height |-> out.height, cm_merkle_tree |-> 1,
                           storage |-> out.storage ]
            /\ arcs' = (1 :> out.tree)
       ELSE /\ ledger' = NoLedger
            /\ arcs' = NoArcs
    /\ last' = [ call EXCEPT !.res = out.res, !.calls = out.calls, !.installs = out.installs,
                              !.fault = out.fault, !.probe = out.probe ]
    /\ UNCHANGED << thr, rdr >>

NewEmpty ==
    /\ ~IsOpen(ledger)
    /\ \E path \in BOOLEAN, removed \in BOOLEAN :
          /\ path \/ ~removed
          /\ \E out \in { new_empty(path, disk, removed, env) : env \in Envs } :
                Constructed(out, [ Call("new_empty") EXCEPT !.path = path, !.removed = removed ])

\* open_at_path called in one of the environments envs.
OpenAtPathIn(envs) ==
    /\ ~IsOpen(ledger)
    /\ \E out \in { open_at_path(disk, env) : env \in envs } :
          Constructed(out, [ Call("open_at_path") EXCEPT !.path = TRUE ])

\* open_secondary_at_path called in one of the environments envs.
OpenSecondaryAtPathIn(envs) ==
    /\ ~IsOpen(ledger)
    /\ \E out \in { open_secondary_at_path(disk, env) : env \in envs } :
          Constructed(out, [ Call("open_secondary_at_path") EXCEPT !.path = TRUE ])

OpenAtPath == OpenAtPathIn(Envs)

OpenSecondaryAtPath == OpenSecondaryAtPathIn(Envs)

\* The process drops its Ledger (handle teardown).
Close ==
    /\ IsOpen(ledger)
    /\ ledger' = NoLedger
    /\ arcs' = NoArcs
    /\ last' = [ NoCall EXCEPT !.op = "close" ]
    /\ UNCHANGED << disk, thr, rdr >>

\* What a catch_up_secondary run depends on besides its arguments.
CatchUpEnvs ==
    [ sync_ok : BOOLEAN,
      fault : { NoFault } \cup { [ site |-> s, call |-> 0 ] : s \in RebuildSites },
      rank : EngineRanks ]

CatchUpSecondary ==
    /\ IsOpen(ledger)
    /\ \E update_merkle_tree \in BOOLEAN, primary_height \in 0 .. MaxPrimaryHeight :
       \E out \in { catch_up_secondary(ledger, disk, update_merkle_tree, primary_height,
                                       env.sync_ok, env) : env \in CatchUpEnvs } :
          LET new == FreshArc(arcs)
          IN  /\ IF IsSome(out.publish)
                 THEN /\ ledger' = [ out.ledger EXCEPT !.cm_merkle_tree = new ]
                      /\ arcs' = DropUnreferenced((new :> Unwrap(out.publish)) @@ arcs,
                                                  ledger', thr, rdr)
                 ELSE /\ ledger' = out.ledger
                      /\ arcs' = arcs
              /\ last' = [ Call("catch_up_secondary") EXCEPT
                             !.update_merkle_tree = update_merkle_tree,
                             !.primary_height = primary_height,
                             !.sync_ok = out.sync_ok, !.fault = out.fault,
                             !.res = out.res, !.synced = out.synced,
                             !.rebuild = out.rebuild, !.published = IsSome(out.publish),
                             !.additional_cms = out.additional_cms ]
              /\ UNCHANGED << disk, thr, rdr >>

SavePeerBookToStorage ==
    /\ IsOpen(ledger)
    /\ \E peers_serialized \in PeerBooks, fails \in BOOLEAN :
          LET transaction == save_peer_book_transaction(peers_serialized)
              out == batch(ledger.storage, disk, transaction, fails)
              call == [ Call("save_peer_book_to_storage") EXCEPT
                          !.value = Some(peers_serialized),
                          !.ops = Len(transaction),
                          !.fault = IF fails THEN [ site |-> "batch", call |-> 0 ] ELSE NoFault,
                          !.res = IF out = None THEN "Err" ELSE "Ok" ]
          IN  /\ last' = call
              /\ IF out = None THEN UNCHANGED << disk, ledger >>
                 ELSE IF ledger.storage.mode = "primary"
                 THEN /\ disk' = [ disk EXCEPT !.db = Unwrap(out) ]
                      /\ UNCHANGED ledger
                 ELSE /\ ledger' = [ ledger EXCEPT !.storage.view = Unwrap(out) ]
                      /\ UNCHANGED disk
              /\ UNCHANGED << arcs, thr, rdr >>

\* A read-only accessor returned answer: nothing but the record of the
\* call changes.
Answered(op, answer, fails) ==
    /\ last' = [ NoCall EXCEPT !.op = op, !.res = answer.res, !.value = answer.value,
                               !.fault = IF fails THEN [ site |-> "get", call |-> 0 ]
                                         ELSE NoFault ]
    /\ UNCHANGED << disk, ledger, arcs, thr, rdr >>

GetPeerBook ==
    /\ IsOpen(ledger)
    /\ \E fails \in BOOLEAN :
          Answered("get_peer_book", get_peer_book(ledger, disk, fails), fails)

GetBestBlockNumber ==
    /\ IsOpen(ledger)
    /\ \E fails \in BOOLEAN :
          Answered("get_best_block_number", get_best_block_number(ledger, disk, fails), fails)

IsEmpty ==
    /\ IsOpen(ledger)
    /\ \E fails \in BOOLEAN :
          Answered("is_empty",
                   [ res |-> "Ok", value |-> Some(is_empty(ledger, disk, fails)) ], fails)

(***************************************************************************)
(* The primary's writer, a collaborator of this core: while this process   *)
(* holds no primary handle on the path, another primary may append blocks. *)
(***************************************************************************)
\* The store after a block with one new commitment is committed: the best
\* block number advances and the commitment gets the next dense index.
BlockInserted(store, cm) ==
    Insert(Insert(store, COL_COMMITMENT, CommitmentKey(cm),
                  u32_to_bytes(Cardinality(DOMAIN store[COL_COMMITMENT]))),
           COL_META, KEY_BEST_BLOCK_NUMBER,
           u32_to_bytes(bytes_to_u32(store[COL_META][KEY_BEST_BLOCK_NUMBER]) + 1))

PrimaryInsertBlock ==
    /\ ledger.storage.mode # "primary"
    /\ KEY_BEST_BLOCK_NUMBER \in DOMAIN disk.db[COL_META]
    /\ bytes_to_u32(disk.db[COL_META][KEY_BEST_BLOCK_NUMBER]) < MaxHeight
    /\ \E cm \in BlockCommitments :
          /\ CommitmentKey(cm) \notin DOMAIN disk.db[COL_COMMITMENT]
          /\ disk' = [ disk EXCEPT !.db = BlockInserted(disk.db, cm) ]
    /\ last' = [ NoCall EXCEPT !.op = "insert_block" ]
    /\ UNCHANGED << ledger, arcs, thr, rdr >>

Next ==
    \/ NewEmpty
    \/ OpenAtPath
    \/ OpenSecondaryAtPath
    \/ Close
    \/ CatchUpSecondary
    \/ SavePeerBookToStorage
    \/ GetPeerBook
    \/ GetBestBlockNumber
    \/ IsEmpty
    \/ PrimaryInsertBlock

Spec == Init /\ [][Next]_vars

(***************************************************************************)
(* Properties of catch_up_secondary run alone (specification Spec).        *)
(***************************************************************************)
\* The commitment column the ledger's storage handle reads.
CommitmentColumn(l, d) == Contents(l.storage, d)[COL_COMMITMENT]

\* tree is the tree over the whole column: one leaf per entry, leaf i the
\* commitment whose stored index is i (leaves are numbered from 0).
IsTreeOver(tree, column) ==
    /\ Len(tree.leaves) = Cardinality(DOMAIN column)
    /\ \A key \in DOMAIN column :
          /\ bytes_to_u32(column[key]) + 1 \in DOMAIN tree.leaves
          /\ Some(tree.leaves[bytes_to_u32(column[key]) + 1]) = ReadCommitment(key)

CaughtUpCall == last.op = "catch_up_secondary"
PreHeight == last.pre_ledger.current_block_height

\* The call left the snapshot alone: same pointer, same tree behind it.
SnapshotUntouched ==
    /\ ~last.published
    /\ ledger.cm_merkle_tree = last.pre_ledger.cm_merkle_tree
    /\ TreeOf(ledger, arcs) = last.pre_tree

\* C1: catch_up_secondary(update_tree, h) with h <= the current height is a
\* no-op for either flag: it returns Ok, does not call the storage catch-up,
\* and leaves the height, the snapshot and the storage handle as they were.
C1_NoOpWhenCurrent ==
    (CaughtUpCall /\ last.primary_height <= PreHeight) =>
        /\ last.res = "Ok"
        /\ ~last.synced
        /\ ~last.rebuild
        /\ ledger = last.pre_ledger
        /\ SnapshotUntouched

\* C1's case: a call with update_tree set and h equal to a height an earlier
\* call stored, made while the disk holds commitments the snapshot lacks.
C1_Witness ==
    /\ CaughtUpCall
    /\ last.update_merkle_tree
    /\ last.primary_height = PreHeight
    /\ PreHeight > 0
    /\ Len(TreeOf(ledger, arcs).leaves) < Cardinality(DOMAIN disk.db[COL_COMMITMENT])
    /\ ledger.storage.mode = "secondary"

\* C2: when h > the current height and the storage sync fails, the call
\* returns Ok, the height keeps its old value, nothing is republished and no
\* rebuild is attempted, for either flag.
C2_SyncFailureSwallowed ==
    (CaughtUpCall /\ last.primary_height > PreHeight /\ last.synced /\ ~last.sync_ok) =>
        /\ last.res = "Ok"
        /\ ledger.current_block_height = PreHeight
        /\ ledger = last.pre_ledger
        /\ ~last.rebuild
        /\ SnapshotUntouched

\* C2's case: the sync failed for a call asking for a rebuild on a stale
\* secondary.
C2_Witness ==
    /\ CaughtUpCall
    /\ last.update_merkle_tree
    /\ last.primary_height > PreHeight
    /\ last.synced /\ ~last.sync_ok
    /\ ledger.storage.mode = "secondary"
    /\ ledger.storage.view # disk.db

\* C3 as stated: after catch_up_secondary(true, h) with h > the current
\* height and a successful sync, the height is h and the published snapshot
\* is the tree over the commitment column the synced storage holds.
C3_Original ==
    (CaughtUpCall /\ last.update_merkle_tree /\ last.primary_height > PreHeight /\ last.sync_ok) =>
        /\ ledger.current_block_height = last.primary_height
        /\ IsTreeOver(TreeOf(ledger, arcs), CommitmentColumn(ledger, disk))

\* C3 amended: after catch_up_secondary(true, h) with h > the current height
\* and a successful sync the height is exactly h; when the call returns Ok a
\* new snapshot was published and it is the tree over the commitment column
\* of the synced storage (for a secondary, the disk's); when the rebuild
\* fails the call returns Err and the snapshot is the one from before.
C3_HeightAndRebuiltSnapshot ==
    (CaughtUpCall /\ last.update_merkle_tree /\ last.primary_height > PreHeight /\ last.sync_ok) =>
        /\ ledger.current_block_height = last.primary_height
        /\ last.rebuild
        /\ last.res \in { "Ok", "Err" }
        /\ last.res = "Ok" =>
              /\ last.published
              /\ IsTreeOver(TreeOf(ledger, arcs), CommitmentColumn(ledger, disk))
              /\ ledger.storage.mode = "secondary" => ledger.storage.view = disk.db
        /\ last.res = "Err" => SnapshotUntouched

\* C3's case: the call returned Ok with h different from the best block
\* number on disk, and the new snapshot has more leaves than the old one.
C3_Witness ==
    /\ CaughtUpCall /\ last.update_merkle_tree /\ last.sync_ok
    /\ last.primary_height > PreHeight
    /\ last.res = "Ok"
    /\ ledger.storage.mode = "secondary"
    /\ last.primary_height # bytes_to_u32(disk.db[COL_META][KEY_BEST_BLOCK_NUMBER])
    /\ Len(TreeOf(ledger, arcs).leaves) > Len(last.pre_tree.leaves)

\* C4: after catch_up_secondary(false, h) with h > the current height and a
\* successful sync, the height is h and the published snapshot is the one
\* from before the call.
C4_HeightWithoutRebuild ==
    (CaughtUpCall /\ ~last.update_merkle_tree /\ last.primary_height > PreHeight /\ last.sync_ok) =>
        /\ last.res = "Ok"
        /\ ledger.current_block_height = last.primary_height
        /\ ~last.rebuild
        /\ SnapshotUntouched

\* C4's case: the synced storage holds more commitments than the snapshot
\* that stayed published covers.
C4_Witness ==
    /\ CaughtUpCall /\ ~last.update_merkle_tree /\ last.sync_ok
    /\ last.primary_height > PreHeight
    /\ ledger.storage.mode = "secondary"
    /\ ledger.storage.view = disk.db
    /\ Len(TreeOf(ledger, arcs).leaves) < Cardinality(DOMAIN CommitmentColumn(ledger, disk))

(***************************************************************************)
(* Specification ScanSpec: the ledger is opened over any commitment column *)
(* with dense unique indices, with get_col returning it in any order.      *)
(***************************************************************************)
\* Most entries of a column of ScanSpec.
MaxLeaves == 3

\* The keys of those columns: one-byte commitments, and a key too short to
\* decode.
ScanKeys == { CommitmentKey(b) : b \in 0 .. MaxLeaves } \cup { TruncatedKey }

\* The position of key in the sequence s that lists it.
PositionIn(s, key) == CHOOSE i \in DOMAIN s : s[i] = key

\* The column whose keys were inserted in the order of s: the i-th inserted
\* key has index i - 1.
ColumnInsertedAs(s) ==
    [ key \in { s[i] : i \in DOMAIN s } |-> u32_to_bytes(PositionIn(s, key) - 1) ]

\* Every column of at most MaxLeaves entries with dense unique indices.
DenseColumns ==
    { ColumnInsertedAs(s) :
        s \in UNION { Orderings(S) : S \in { T \in SUBSET ScanKeys : Cardinality(T) <= MaxLeaves } } }

\* A database holding a best block number and the column.
ScanDisk(best, column) ==
    [ dir |-> TRUE,
      db |-> [ Insert(EmptyStore, COL_META, KEY_BEST_BLOCK_NUMBER, u32_to_bytes(best))
                 EXCEPT ![COL_COMMITMENT] = column ] ]

ScanInit ==
    /\ disk \in { ScanDisk(best, column) : best \in 0 .. MaxHeight, column \in DenseColumns }
    /\ ledger = NoLedger
    /\ arcs = NoArcs
    /\ last = NoCall
    /\ thr = [ w \in Writers |-> IdleThread ]
    /\ rdr = IdleReader

\* No step fails, and get_col returns the column in any order.
ScanEnvs == [ fault : { NoFault }, rank : Orderings(DOMAIN disk.db[COL_COMMITMENT]) ]

ScanOpenAtPath == OpenAtPathIn(ScanEnvs)

ScanOpenSecondaryAtPath == OpenSecondaryAtPathIn(ScanEnvs)

ScanNext ==
    \/ ScanOpenAtPath
    \/ ScanOpenSecondaryAtPath
    \/ Close

ScanSpec == ScanInit /\ [][ScanNext]_vars

OpenedCall == last.op \in { "open_at_path", "open_secondary_at_path" }

\* C5: over a commitment column of N entries with unique dense indices
\* 0..N-1, returned by get_col in any order, opening the ledger with the
\* best block number present builds a snapshot of N leaves whose leaf i is
\* the commitment whose stored index is i.
C5_LeavesInIndexOrder ==
    (OpenedCall /\ last.res = "Ok") =>
        /\ last.calls = 1
        /\ last.installs = 0
        /\ IsTreeOver(TreeOf(ledger, arcs), disk.db[COL_COMMITMENT])
        /\ disk = last.pre_disk

\* C5's case: storage {(A,2), (B,0), (C,1)} with A < B < C in key order was
\* opened and the leaves are [B, C, A].
C5_Witness ==
    /\ OpenedCall /\ last.res = "Ok"
    /\ disk.db[COL_COMMITMENT] =
          ( CommitmentKey(0) :> u32_to_bytes(2) ) @@ ( CommitmentKey(1) :> u32_to_bytes(0) )
          @@ ( CommitmentKey(2) :> u32_to_bytes(1) )
    /\ TreeOf(ledger, arcs).leaves = << 1, 2, 0 >>

(***************************************************************************)
(* Specification ConcSpec: on a secondary ledger opened on a fresh path,   *)
(* threads run catch_up_secondary one shared-memory access at a time,      *)
(* while a reader loads the snapshot and the primary appends blocks.       *)
(***************************************************************************)
\* Calls of catch_up_secondary the threads make in all.
MaxConcCalls == 2

\* The address rebuild_merkle_tree builds the new tree at: a new allocation.
BuildsInPlace(published, fresh) == published

BuildTarget(published, fresh) == fresh

ConcInit ==
    /\ \E out \in { open_secondary_at_path(NoDisk, env) : env \in [ fault : { NoFault }, rank : EngineRanks ] } :
          /\ disk = out.disk
          /\ ledger = [ current_block_height |-> out.height, cm_merkle_tree |-> 1,
                        storage |-> out.storage ]
          /\ arcs = (1 :> out.tree)
    /\ last = [ NoCall EXCEPT !.calls = 0 ]
    /\ thr = [ w \in Writers |-> IdleThread ]
    /\ rdr = IdleReader

\* A thread returns res from catch_up_secondary: its locals are gone.
Returned(t, res) == IdleThread

\* "let secondary_height = self.block_height(); if primary_height >
\* secondary_height": the call starts, loads the height and compares.
CuLoad(w) ==
    /\ thr[w].pc = "idle"
    /\ last.calls < MaxConcCalls
    /\ \E update_merkle_tree \in BOOLEAN, primary_height \in 0 .. MaxPrimaryHeight :
          LET secondary_height == block_height(ledger)
              t == [ IdleThread EXCEPT !.update_merkle_tree = update_merkle_tree,
                                       !.primary_height = primary_height ]
          IN  thr' = [ thr EXCEPT ![w] =
                         IF NeedsCatchUp(primary_height, secondary_height)
                         THEN [ t EXCEPT !.pc = "sync" ]
                         ELSE Returned(t, "Ok") ]
    /\ last' = [ last EXCEPT !.calls = @ + 1 ]
    /\ UNCHANGED << disk, ledger, arcs, rdr >>

\* A catch-up that goes on to the rebuild without storing the height.
RebuildsWithoutStoring == "rebuild"

\* The statement a thread runs after a successful sync: the store of the
\* height, which so precedes the rebuild and the publication.
StepAfterSync == "store"

\* "if self.storage.try_catch_up_with_primary().is_ok()"
CuSync(w) ==
    /\ thr[w].pc = "sync"
    /\ \E sync_ok \in BOOLEAN :
          IF sync_ok
          THEN /\ ledger' = [ ledger EXCEPT !.storage = CaughtUp(ledger.storage, disk) ]
               /\ thr' = [ thr EXCEPT ![w].pc = StepAfterSync ]
          ELSE /\ ledger' = ledger
               /\ thr' = [ thr EXCEPT ![w] =
                             Returned(thr[w], IF SyncErrorIsFatal THEN "Err" ELSE "Ok") ]
    /\ UNCHANGED << disk, arcs, last, rdr >>

\* "self.current_block_height.store(primary_height, Ordering::SeqCst)"
CuStore(w) ==
    /\ thr[w].pc = "store"
    /\ ledger' = [ ledger EXCEPT !.current_block_height =
                     StoredHeight(thr[w].primary_height) ]
    /\ thr' = [ thr EXCEPT ![w] =
                  IF RebuildsTree(thr[w].update_merkle_tree)
                  THEN [ thr[w] EXCEPT !.pc = "rebuild" ]
                  ELSE Returned(thr[w], "Ok") ]
    /\ UNCHANGED << disk, arcs, last, rdr >>

\* rebuild_merkle_tree, first part: the column is scanned and sorted, and
\* the tree to build is started at its address; or a step fails and the
\* call returns the error.
CuRebuild(w) ==
    /\ thr[w].pc = "rebuild"
    /\ \E tree \in { rebuild_merkle_tree(ledger, disk, RebuildDelta, env) :
                       env \in [ fault : { NoFault, [ site |-> "get_col", call |-> 0 ] },
                                 rank : EngineRanks ] } :
          IF tree = None
          THEN /\ thr' = [ thr EXCEPT ![w] = Returned(thr[w], "Err") ]
               /\ arcs' = arcs
          ELSE LET target == BuildTarget(ledger.cm_merkle_tree, FreshArc(arcs))
               IN  /\ thr' = [ thr EXCEPT ![w].pc = "build",
                                          ![w].leaves = Unwrap(tree).leaves,
                                          ![w].new_tree = target ]
                   /\ arcs' = (target :> EmptyTree) @@ arcs
    /\ UNCHANGED << disk, ledger, last, rdr >>

\* rebuild_merkle_tree, the build: the next leaf enters the tree under
\* construction; after the last one the tree is ready to be published.
CuBuild(w) ==
    /\ thr[w].pc = "build"
    /\ LET built == arcs[thr[w].new_tree].leaves
       IN  IF Len(built) < Len(thr[w].leaves)
           THEN /\ arcs' = [ arcs EXCEPT ![thr[w].new_tree] =
                               MerkleTree_new(Append(built, thr[w].leaves[Len(built) + 1])) ]
                /\ thr' = thr
           ELSE /\ arcs' = arcs
                /\ thr' = [ thr EXCEPT ![w].pc = "publish" ]
    /\ UNCHANGED << disk, ledger, last, rdr >>

\* "self.cm_merkle_tree.store(Arc::new(new_tree))": the pointer is swapped
\* in one step; the old tree is dropped once nothing refers to it.
CuPublish(w) ==
    /\ thr[w].pc = "publish"
    /\ ledger' = [ ledger EXCEPT !.cm_merkle_tree = thr[w].new_tree ]
    /\ thr' = [ thr EXCEPT ![w] = Returned(thr[w], "Ok") ]
    /\ arcs' = DropUnreferenced(arcs, ledger', thr', rdr)
    /\ UNCHANGED << disk, last, rdr >>

\* "cm_merkle_tree.load()": the reader takes the current snapshot, dropping
\* the one it held.
ReaderLoadTree ==
    /\ rdr.snapshot # ledger.cm_merkle_tree
    /\ rdr' = [ rdr EXCEPT !.snapshot = ledger.cm_merkle_tree, !.seen = TreeOf(ledger, arcs) ]
    /\ arcs' = DropUnreferenced(arcs, ledger, thr, rdr')
    /\ UNCHANGED << disk, ledger, last, thr >>

\* The primary appends a block carrying the least unused commitment.
ConcInsertBlock ==
    /\ bytes_to_u32(disk.db[COL_META][KEY_BEST_BLOCK_NUMBER]) < MaxHeight
    /\ LET unused == { cm \in BlockCommitments :
                         CommitmentKey(cm) \notin DOMAIN disk.db[COL_COMMITMENT] }
       IN  disk' = [ disk EXCEPT !.db =
                       BlockInserted(disk.db, CHOOSE cm \in unused : \A o \in unused : cm <= o) ]
    /\ UNCHANGED << ledger, arcs, last, thr, rdr >>

ConcNext ==
    \/ \E w \in Writers : CuLoad(w)
    \/ \E w \in Writers : CuSync(w)
    \/ \E w \in Writers : CuStore(w)
    \/ \E w \in Writers : CuRebuild(w)
    \/ \E w \in Writers : CuBuild(w)
    \/ \E w \in Writers : CuPublish(w)
    \/ ReaderLoadTree
    \/ ConcInsertBlock

ConcSpec == ConcInit /\ [][ConcNext]_vars

(***************************************************************************)
(* Properties of the snapshot under concurrent readers (ConcSpec).         *)
(***************************************************************************)
\* The entries of a column whose index is below n.
ColumnBelow(column, n) ==
    [ key \in { k \in DOMAIN column : bytes_to_u32(column[k]) < n } |-> column[key] ]

\* tree is a complete tree over a whole commitment sequence: the tree over
\* the commitment column as it was at the genesis block or after a later
\* block (the column only grows, a block at a time).
CompleteTree(tree) ==
    \E n \in Len(GenesisCommitments) .. Cardinality(DOMAIN disk.db[COL_COMMITMENT]) :
        IsTreeOver(tree, ColumnBelow(disk.db[COL_COMMITMENT], n))

\* C6: with readers loading the snapshot while catch_up_secondary rebuilds
\* it, the tree behind the published pointer and the tree behind a snapshot
\* a reader holds are complete trees, never a tree under construction, and
\* the tree behind a held snapshot is still the tree the reader found when
\* it loaded it.
C6_ReadersSeeCompleteTrees ==
    /\ ledger.cm_merkle_tree \in DOMAIN arcs
    /\ CompleteTree(arcs[ledger.cm_merkle_tree])
    /\ \A w \in Writers : thr[w].pc = "build" => thr[w].new_tree # ledger.cm_merkle_tree
    /\ rdr.snapshot # 0 =>
          /\ rdr.snapshot \in DOMAIN arcs
          /\ CompleteTree(arcs[rdr.snapshot])
          /\ arcs[rdr.snapshot] = rdr.seen
          /\ \A w \in Writers : thr[w].pc = "build" => thr[w].new_tree # rdr.snapshot

\* C6's case: the reader still holds the snapshot it loaded before a rebuilt
\* tree with more leaves was published, while another rebuild has built
\* part of its tree.
C6_Witness ==
    /\ rdr.snapshot # 0
    /\ rdr.snapshot # ledger.cm_merkle_tree
    /\ Len(TreeOf(ledger, arcs).leaves) > Len(rdr.seen.leaves)
    /\ \E w \in Writers :
          /\ thr[w].pc = "build"
          /\ Len(arcs[thr[w].new_tree].leaves) > 0
          /\ Len(arcs[thr[w].new_tree].leaves) < Len(thr[w].leaves)

(***************************************************************************)
(* Properties of the constructors (specification Spec).                    *)
(***************************************************************************)
\* The best block number is in the metadata of store.
HasBestBlockNumber(store) == KEY_BEST_BLOCK_NUMBER \in DOMAIN store[COL_META]

\* The last call went through load_ledger_state.
LoadedCall ==
    \/ last.op \in { "open_at_path", "open_secondary_at_path" }
    \/ last.op = "new_empty" /\ last.path

\* The disk load_ledger_state started from in the last call.
LoadedDisk == IF last.op = "new_empty" /\ last.removed THEN NoDisk ELSE last.pre_disk

\* C7: open_secondary_at_path on a path without the best block number, when
\* no step fails, installs the genesis block as a primary at the path, then
\* returns a ledger whose storage handle is a secondary one, after entering
\* load_ledger_state exactly twice (one re-invocation); whatever fails, the
\* routine is entered at most twice and installs genesis at most once.
C7_SecondaryBootstrap ==
    last.op = "open_secondary_at_path" =>
        /\ last.res # "Overflow"
        /\ last.calls <= 2
        /\ last.installs <= 1
        /\ (last.calls = 2) = (last.installs = 1)
        /\ (~HasBestBlockNumber(last.pre_disk.db) /\ last.fault = NoFault) =>
              /\ last.res = "Ok"
              /\ last.calls = 2
              /\ last.installs = 1
              /\ ledger.storage.mode = "secondary"
              /\ disk.db = GenesisStore(last.pre_disk.db)
              /\ HasBestBlockNumber(disk.db)
              /\ ledger.storage.view = disk.db
              /\ ledger.current_block_height = 0
              /\ TreeOf(ledger, arcs).leaves = GenesisCommitments

\* C7's case: a secondary was opened on a path that had no database.
C7_Witness ==
    /\ last.op = "open_secondary_at_path"
    /\ last.pre_disk = NoDisk
    /\ last.res = "Ok"
    /\ last.calls = 2
    /\ ledger.storage.mode = "secondary"

\* C8: open_at_path on a path without the best block number, when no step
\* fails, returns a primary ledger of height 0 whose snapshot's leaves are
\* the genesis block's commitments, and leaves the best block number in
\* storage.
C8_PrimaryBootstrap ==
    (last.op = "open_at_path" /\ ~HasBestBlockNumber(last.pre_disk.db) /\ last.fault = NoFault) =>
        /\ last.res = "Ok"
        /\ last.calls = 1
        /\ last.installs = 1
        /\ ledger.storage.mode = "primary"
        /\ ledger.current_block_height = 0
        /\ TreeOf(ledger, arcs).leaves = GenesisCommitments
        /\ HasBestBlockNumber(disk.db)
        /\ get(disk.db, COL_META, KEY_BEST_BLOCK_NUMBER) = Some(u32_to_bytes(0))
        /\ IsTreeOver(TreeOf(ledger, arcs), disk.db[COL_COMMITMENT])

\* C8's case: a primary was opened on a path that had no database.
C8_Witness ==
    /\ last.op = "open_at_path"
    /\ last.pre_disk = NoDisk
    /\ last.res = "Ok"
    /\ ledger.storage.mode = "primary"

\* C9 as stated: every failure of the bootstrap routine, the failure to
\* install genesis included, is returned as a StorageError.
C9_Original ==
    (LoadedCall /\ last.fault # NoFault) => last.res = "Err"

\* C9 amended: the genesis branch is taken only when the storage opened and
\* the lookup of the best block number succeeded and found nothing; a
\* failure of any other step (storage open, lookup, column scan, commitment
\* decode, tree construction, genesis decode) is returned as a StorageError
\* and no ledger is returned; a failure to install genesis panics
\* ("Ledger could not be instantiated") instead of being returned; a ledger
\* is returned only when no step failed.
C9_FailuresSurface ==
    LoadedCall =>
        /\ last.installs >= 1 =>
              /\ ~HasBestBlockNumber(LoadedDisk.db)
              /\ last.fault \notin { [ site |-> s, call |-> 1 ] : s \in { "open", "get_meta" } }
              /\ last.fault.site # "create_dir"
        /\ (last.fault = NoFault) = (last.res = "Ok")
        /\ (last.fault.site = "new") = (last.res = "Panic")
        /\ (last.fault # NoFault /\ last.fault.site # "new") = (last.res = "Err")
        /\ last.res # "Ok" => ~IsOpen(ledger)
        /\ (last.res = "Ok" /\ last.installs = 0) =>
              /\ HasBestBlockNumber(LoadedDisk.db)
              /\ disk = LoadedDisk

\* C9's case: the install of genesis failed in the bootstrap of a secondary.
C9_Witness ==
    /\ last.op = "open_secondary_at_path"
    /\ last.fault.site = "new"
    /\ last.res = "Panic"
    /\ ~IsOpen(ledger)

\* C10: new_empty(Some(path)) on a path that holds a chain returns a ledger
\* holding only the genesis state (height 0, snapshot over the genesis
\* commitments, a database with the genesis entries and no peer book), also
\* when removing the old directory fails.
C10_Original ==
    (last.op = "new_empty" /\ last.path /\ last.res = "Ok") =>
        /\ ledger.current_block_height = 0
        /\ TreeOf(ledger, arcs).leaves = GenesisCommitments
        /\ disk.db = GenesisStore(EmptyStore)
        /\ get(disk.db, COL_META, KEY_PEER_BOOK) = None

(***************************************************************************)
(* Properties of the metadata accessors (specification Spec).              *)
(***************************************************************************)
\* The peer book the ledger's storage handle holds, if any.
StoredPeerBook(l, d) == get(Contents(l.storage, d), COL_META, KEY_PEER_BOOK)

\* The step is a save_peer_book_to_storage that succeeded.
SavedPeerBook == last'.op = "save_peer_book_to_storage" /\ last'.res = "Ok"

\* The step is a constructor returning a ledger over a database that never
\* held a peer book: one made in memory, or on a path without one.
OpenedWithoutPeerBook ==
    /\ ~IsOpen(ledger) /\ IsOpen(ledger')
    /\ \/ last'.op = "new_empty" /\ (~last'.path \/ last'.removed)
       \/ KEY_PEER_BOOK \notin DOMAIN disk.db[COL_META]

\* C11: after save_peer_book_to_storage calls that succeed, get_peer_book
\* returns Some of exactly the bytes of the most recent save, and None when
\* no peer book was ever saved.  Step by step: a successful save leaves its
\* bytes as the stored peer book; no other step on the open ledger changes
\* the stored peer book; a ledger opened on a database without a peer book
\* holds none; get_peer_book, when it succeeds, returns the stored peer
\* book (None when there is none).
C11_PeerBookRoundTrip ==
    [][ /\ SavedPeerBook => StoredPeerBook(ledger', disk') = last'.value
        /\ (IsOpen(ledger) /\ IsOpen(ledger') /\ ~SavedPeerBook) =>
              StoredPeerBook(ledger', disk') = StoredPeerBook(ledger, disk)
        /\ OpenedWithoutPeerBook => StoredPeerBook(ledger', disk') = None
        /\ (last'.op = "get_peer_book" /\ last'.res = "Ok") =>
              last'.value = StoredPeerBook(ledger, disk)
      ]_vars

\* C11's case: get_peer_book returned the empty peer book that a save wrote
\* over an earlier one, as Some of no bytes.
C11_Witness ==
    /\ last.op = "get_peer_book"
    /\ last.res = "Ok"
    /\ last.value = Some(<< >>)
    /\ ledger.storage.mode = "primary"

(***************************************************************************)
(* Specification AccessorSpec: the accessors and catch_up_secondary on a   *)
(* Ledger over any storage.  The fields of Ledger are public, so a Ledger  *)
(* can be put together around a storage that holds no chain yet, or whose  *)
(* best block number is not the height counter's value.                    *)
(***************************************************************************)
\* The databases a Ledger is put around: with no block, or with the genesis
\* block and a best block number, each with or without a peer book.
AccessorStores ==
    LET chains == { EmptyStore }
                  \cup { Insert(GenesisStore(EmptyStore), COL_META, KEY_BEST_BLOCK_NUMBER,
                                u32_to_bytes(best)) : best \in 0 .. MaxHeight }
    IN  chains \cup { Insert(store, COL_META, KEY_PEER_BOOK, peers) :
                        store \in chains, peers \in PeerBooks }

AccessorInit ==
    /\ disk \in { [ dir |-> TRUE, db |-> store ] : store \in AccessorStores }
    /\ \E height \in 0 .. MaxPrimaryHeight, primary \in BOOLEAN :
          ledger = [ current_block_height |-> height, cm_merkle_tree |-> 1,
                     storage |-> Open(disk, LedgerPath, SecondaryArg(LedgerPath, primary)) ]
    /\ arcs = (1 :> MerkleTree_new(
                       IF disk.db[COL_COMMITMENT] = EmptyMap THEN << >> ELSE GenesisCommitments))
    /\ last = NoCall
    /\ thr = [ w \in Writers |-> IdleThread ]
    /\ rdr = IdleReader

AccessorNext ==
    \/ GetBestBlockNumber
    \/ GetPeerBook
    \/ IsEmpty
    \/ SavePeerBookToStorage
    \/ CatchUpSecondary
    \/ PrimaryInsertBlock

AccessorSpec == AccessorInit /\ [][AccessorNext]_vars

\* The best block number the ledger's storage handle holds, if any.
StoredBestBlockNumber(l, d) == get(Contents(l.storage, d), COL_META, KEY_BEST_BLOCK_NUMBER)

\* answer is what the storage holds: Ok of the number whose encoding is
\* stored under the best block number's key, an error when the key is
\* absent.
AnswersFromStorage(answer, l, d) ==
    /\ (answer.res = "Ok") = IsSome(StoredBestBlockNumber(l, d))
    /\ answer.res = "Ok" =>
          /\ IsSome(answer.value)
          /\ Some(u32_to_bytes(Unwrap(answer.value))) = StoredBestBlockNumber(l, d)
    /\ answer.res # "Ok" => answer.res = "Err" /\ answer.value = None

\* C12: get_best_block_number returns the value decoded from the best block
\* number's key of the metadata column, not the in-memory height counter:
\* in every state, also after a successful catch_up_secondary(_, h), it
\* returns what the storage holds, and it returns an error when the key is
\* absent (or when the storage cannot be read).
C12_BestBlockNumberFromStorage ==
    /\ IsOpen(ledger) => AnswersFromStorage(get_best_block_number(ledger, disk, FALSE), ledger, disk)
    /\ (last.op = "get_best_block_number" /\ last.fault = NoFault) =>
          AnswersFromStorage(last, ledger, disk)
    /\ (last.op = "get_best_block_number" /\ last.fault # NoFault) => last.res = "Err"

\* C12's case: a catch_up_secondary(_, h) with a successful sync has set the
\* height counter to h, and get_best_block_number returns another number.
C12_Witness ==
    /\ CaughtUpCall /\ last.sync_ok /\ last.res = "Ok"
    /\ ledger.current_block_height = last.primary_height
    /\ get_best_block_number(ledger, disk, FALSE).res = "Ok"
    /\ get_best_block_number(ledger, disk, FALSE).value # Some(last.primary_height)

\* The other case of C12: the key is absent and the call returned an error.
C12_AbsentKey ==
    /\ last.op = "get_best_block_number"
    /\ last.fault = NoFault
    /\ last.res = "Err"
    /\ StoredBestBlockNumber(ledger, disk) = None

(***************************************************************************)
(* Properties of is_empty and of load_ledger_state's result (Spec).        *)
(***************************************************************************)
\* The last call was a constructor and it returned a ledger.
ConstructedCall ==
    /\ last.op \in { "new_empty", "open_at_path", "open_secondary_at_path" }
    /\ last.res = "Ok"

\* C13: is_empty() is true exactly when the latest-block lookup fails (no
\* block in the storage, or the lookup itself failing), so a ledger returned
\* by new_empty, open_at_path or open_secondary_at_path, which holds at
\* least the genesis block, reports is_empty() = false.
C13_ConstructedLedgerNotEmpty ==
    [][ /\ ConstructedCall =>
              /\ IsSome(StoredBestBlockNumber(ledger, disk))
              /\ is_empty(ledger, disk, FALSE) = FALSE
        /\ (ConstructedCall /\ last'.op = "is_empty" /\ last'.fault = NoFault) =>
              last'.value = Some(FALSE)
        /\ last'.op = "is_empty" =>
              last'.value = Some(last'.fault # NoFault \/ StoredBestBlockNumber(ledger, disk) = None)
      ]_vars

\* C13's case: is_empty() answered false on a ledger made in memory by
\* new_empty(None).
C13_Witness ==
    /\ last.op = "is_empty"
    /\ last.fault = NoFault
    /\ last.value = Some(FALSE)
    /\ ledger.storage.mode = "memory"

\* The last call returned the ledger that load_ledger_state builds when it
\* finds the best block number (at once, or for a secondary after the
\* install of genesis).
LoadedFromStorage ==
    /\ LoadedCall
    /\ last.res = "Ok"
    /\ last.installs = 0 \/ last.op = "open_secondary_at_path"

\* The marker path the last call's flag asks for: none for a primary, the
\* path with "_secondary" appended for a secondary.
MarkerOfFlag ==
    IF last.op = "open_secondary_at_path" THEN Some("ledger_secondary") ELSE None

\* C14: when the best block number is present, load_ledger_state returns a
\* ledger whose height is the number whose encoding is stored and whose
\* storage handle was opened in the mode of the flag, with no marker path
\* for a primary and with the path followed by "_secondary" for a
\* secondary, for the probing open as for the handle the ledger keeps.
C14_LoadedHeightAndMode ==
    LoadedFromStorage =>
        /\ Some(u32_to_bytes(ledger.current_block_height)) = StoredBestBlockNumber(ledger, disk)
        /\ StoredBestBlockNumber(ledger, disk) = get(disk.db, COL_META, KEY_BEST_BLOCK_NUMBER)
        /\ last.installs = 0 => disk = LoadedDisk
        /\ ledger.storage.marker = MarkerOfFlag
        /\ last.probe = MarkerOfFlag
        /\ ledger.storage.mode =
              IF last.op = "open_secondary_at_path" THEN "secondary" ELSE "primary"

\* C14's case: a secondary was opened on a path whose database holds the
\* best block number 1.
C14_Witness ==
    /\ last.op = "open_secondary_at_path"
    /\ last.res = "Ok"
    /\ last.installs = 0
    /\ ledger.current_block_height = 1
    /\ ledger.storage.marker = Some("ledger_secondary")

(***************************************************************************)
(* Frame and order properties of catch_up_secondary (specification Spec).  *)
(***************************************************************************)
\* The step replaces the published snapshot of a ledger that stays open.
SnapshotReplaced ==
    /\ IsOpen(ledger) /\ IsOpen(ledger')
    /\ \/ ledger'.cm_merkle_tree # ledger.cm_merkle_tree
       \/ TreeOf(ledger', arcs') # TreeOf(ledger, arcs)

\* C15: on an open ledger the published snapshot is replaced only by a
\* catch_up_secondary with update_tree = true, h > the current height and a
\* successful storage sync; is_empty, get_best_block_number, get_peer_book,
\* save_peer_book_to_storage and every other catch_up_secondary call leave
\* the pointer and the tree behind it as they were; every rebuild is handed
\* an empty list of new commitments, and what it publishes is the tree over
\* the rescanned column and nothing else.
C15_SnapshotReplacedOnlyByRebuild ==
    [][ /\ SnapshotReplaced =>
              /\ last'.op = "catch_up_secondary"
              /\ last'.update_merkle_tree
              /\ last'.primary_height > ledger.current_block_height
              /\ last'.sync_ok
              /\ last'.published
        /\ (last'.op = "catch_up_secondary" /\ last'.rebuild) =>
              last'.additional_cms = Some(<< >>)
        /\ (last'.op = "catch_up_secondary" /\ ~last'.rebuild) => last'.additional_cms = None
        /\ (last'.op = "catch_up_secondary" /\ last'.published) =>
              IsTreeOver(TreeOf(ledger', arcs'), CommitmentColumn(ledger', disk'))
        /\ last'.op \in { "is_empty", "get_best_block_number", "get_peer_book",
                          "save_peer_book_to_storage" } =>
              /\ ledger'.cm_merkle_tree = ledger.cm_merkle_tree
              /\ arcs' = arcs
      ]_vars

\* C15's case: a rebuild handed no new commitments replaced the snapshot of
\* a secondary by a tree with other leaves, at a new address.
C15_Witness ==
    /\ CaughtUpCall /\ last.published
    /\ last.additional_cms = Some(<< >>)
    /\ ledger.cm_merkle_tree # last.pre_ledger.cm_merkle_tree
    /\ TreeOf(ledger, arcs) # last.pre_tree
    /\ ledger.storage.mode = "secondary"

\* C16: over any sequence of catch_up_secondary calls made one after the
\* other, with any primary heights and any sync outcomes, the in-memory
\* height never decreases (no step on the open ledger lowers it); after a
\* call whose storage sync succeeded, or that was a no-op, the ledger is
\* CURRENT for that call's argument: height >= primary_height; a call whose
\* sync failed leaves the height as it was (STALE).
C16_HeightMonotoneAndCurrent ==
    [][ /\ (IsOpen(ledger) /\ IsOpen(ledger')) =>
              ledger'.current_block_height >= ledger.current_block_height
        /\ (last'.op = "catch_up_secondary" /\ (last'.sync_ok \/ ~last'.synced)) =>
              ledger'.current_block_height >= last'.primary_height
        /\ (last'.op = "catch_up_secondary" /\ last'.synced /\ ~last'.sync_ok) =>
              /\ ledger'.current_block_height = ledger.current_block_height
              /\ ledger'.current_block_height < last'.primary_height
      ]_vars

\* C16's case: a second successful catch-up moved the height from 1 to 2,
\* after which a call with a smaller primary height was a no-op.
C16_Witness ==
    /\ CaughtUpCall
    /\ ~last.synced
    /\ last.primary_height = 1
    /\ PreHeight = 2
    /\ ledger.current_block_height = 2

(***************************************************************************)
(* Properties of concurrent catch-ups (specification ConcSpec).            *)
(***************************************************************************)
\* The places of a call after its storage sync succeeded.
AfterSuccessfulSync == { "store", "rebuild", "build", "publish" }

\* The places of a call after it stored the height.
AfterStore == { "rebuild", "build", "publish" }

\* The larger of two heights.
MaxOf(a, b) == IF a >= b THEN a ELSE b

\* Both threads are in a catch_up_secondary call whose storage sync
\* succeeded, with different primary heights.
TwoSyncedCalls ==
    /\ \A w \in Writers : thr[w].pc \in AfterSuccessfulSync
    /\ thr[1].primary_height # thr[2].primary_height

\* C17: while two catch_up_secondary calls with different primary heights
\* h1 < h2 run concurrently and both storage syncs succeeded, no step
\* lowers the in-memory height, and once both calls have stored the height
\* it is h2, the larger one, in whatever order they read and stored it.
C17_Original ==
    [][ TwoSyncedCalls =>
          /\ ledger'.current_block_height >= ledger.current_block_height
          /\ (\A w \in Writers : thr'[w].pc \in AfterStore) =>
                ledger'.current_block_height = MaxOf(thr[1].primary_height, thr[2].primary_height)
      ]_vars

\* C19: during a single catch_up_secondary(true, h) with a successful sync
\* (the first call on the ledger, whose height is 0 and whose snapshot is
\* at address 1), the height is stored before the rebuilt snapshot is
\* published: while the call rebuilds, the height is h and the snapshot
\* still the old one; the new snapshot is never published while the height
\* is still the old one.
C19_HeightStoredBeforePublish ==
    last.calls = 1 =>
        /\ \A w \in Writers :
              /\ thr[w].pc \in { "sync", "store" } =>
                    ledger.current_block_height = 0 /\ ledger.cm_merkle_tree = 1
              /\ thr[w].pc \in AfterStore =>
                    /\ ledger.current_block_height = thr[w].primary_height
                    /\ thr[w].primary_height > 0
                    /\ ledger.cm_merkle_tree = 1
        /\ ledger.cm_merkle_tree # 1 => ledger.current_block_height > 0

\* C19's case: the call has built its tree and not published it yet, and a
\* reader holding the old snapshot finds the height already at h = 2.
C19_Witness ==
    /\ last.calls = 1
    /\ \E w \in Writers : thr[w].pc = "publish" /\ thr[w].primary_height = 2
    /\ ledger.current_block_height = 2
    /\ rdr.snapshot = 1
    /\ ledger.cm_merkle_tree = 1

\* The other end of C19's case: the call returned, the new snapshot is
\* published and the height is the new one.
C19_Published ==
    /\ last.calls = 1
    /\ \A w \in Writers : thr[w].pc = "idle"
    /\ ledger.cm_merkle_tree # 1
    /\ ledger.current_block_height > 0

(***************************************************************************)
(* Error and frame properties (specification Spec).                        *)
(***************************************************************************)
\* C18: catch_up_secondary returns an error only when update_tree is true,
\* the storage sync succeeded and the tree rebuild failed; then the height
\* is already primary_height, above its old value, and is not rolled back,
\* while the published snapshot is still the one from before the call; and
\* a failed rebuild is always returned as an error.
C18_ErrorOnlyFromRebuild ==
    CaughtUpCall =>
        /\ last.res \in { "Ok", "Err" }
        /\ last.res = "Err" =>
              /\ last.update_merkle_tree
              /\ last.sync_ok
              /\ last.rebuild /\ ~last.published
              /\ last.primary_height > PreHeight
              /\ ledger.current_block_height = last.primary_height
              /\ SnapshotUntouched
        /\ (last.rebuild /\ ~last.published) => last.res = "Err"

\* C18's case: the rebuild failed at the tree construction after the height
\* went from 0 to 2.
C18_Witness ==
    /\ CaughtUpCall
    /\ last.res = "Err"
    /\ last.fault.site = "tree_rebuild"
    /\ PreHeight = 0
    /\ ledger.current_block_height = 2

\* The metadata of store besides the peer book.
MetaBesidesPeerBook(store) ==
    [ key \in DOMAIN store[COL_META] \ { KEY_PEER_BOOK } |-> store[COL_META][key] ]

\* What the storage handle of the last call's ledger held before the call.
PreContents == Contents(last.pre_ledger.storage, last.pre_disk)

\* C20: save_peer_book_to_storage writes only the peer book's key of the
\* metadata column, as one batch of a single insert: the best block number,
\* the commitment column, the in-memory height and the published snapshot
\* are as before; when the batch fails the error is returned and the stored
\* peer book is the one from before.
C20_SavesOnlyPeerBook ==
    last.op = "save_peer_book_to_storage" =>
        /\ last.ops = 1
        /\ last.res \in { "Ok", "Err" }
        /\ MetaBesidesPeerBook(Contents(ledger.storage, disk)) = MetaBesidesPeerBook(PreContents)
        /\ CommitmentColumn(ledger, disk) = PreContents[COL_COMMITMENT]
        /\ ledger.current_block_height = PreHeight
        /\ SnapshotUntouched
        /\ arcs = (ledger.cm_merkle_tree :> last.pre_tree)
        /\ last.res = "Ok" => StoredPeerBook(ledger, disk) = last.value
        /\ last.res = "Err" =>
              /\ StoredPeerBook(ledger, disk) = get(PreContents, COL_META, KEY_PEER_BOOK)
              /\ disk = last.pre_disk
              /\ ledger = last.pre_ledger

\* C20's case: a save of the empty peer book failed on a primary whose
\* storage holds a peer book, which is still in place.
C20_Witness ==
    /\ last.op = "save_peer_book_to_storage"
    /\ last.res = "Err"
    /\ last.value = Some(<< >>)
    /\ ledger.storage.mode = "primary"
    /\ StoredPeerBook(ledger, disk) = Some(<< 7 >>)

====
